---- MODULE Spec2Model ----
(***************************************************************************)
(* Model of myBluePillThrottle3.ino: a DCC-EX tethered throttle.           *)
(*                                                                         *)
(* The program is setup() followed by loop() called for ever.  One call    *)
(* of loop() is one action (Loop): in Run mode the two brake ramp steps,   *)
(* then the key read from the keypad and its handler; in Fn and Addr mode  *)
(* the key and its handler only.  The moment millis() reaches brakeTime    *)
(* is the action Elapse.                                                   *)
(*                                                                         *)
(* The throttle's globals are gathered in one record so that the steps of  *)
(* loop() compose in the order the code runs them.  Three fields observe   *)
(* the program's output instead of modelling a global: serial (the lines   *)
(* printed on Serial during the latest loop()), display (what the latest   *)
(* UpdateDisplay() drew) and steps (the ramp steps the latest loop() ran). *)
(* More observers live outside the record: key (the key the latest loop()  *)
(* read), ticks (ramp steps since the latest key press), lastKey (the      *)
(* latest key pressed), lastLoco and lastPower (the latest loco command    *)
(* and the latest track power command printed).  A specification records   *)
(* the observers its properties read and leaves the others as setup()      *)
(* finds them.                                                             *)
(***************************************************************************)
EXTENDS Integers, Sequences, FiniteSets, TLC

\* ------------------------------------------------------------ constants
\* #define SPEED_MAX 127
SPEED_MAX == 127
\* int speedStep = 1;
speedStep == 1
\* int brakeTimeIvl = 300;  (milliseconds between two ramp steps)
brakeTimeIvl == 300
\* enum dirState { Reverse = 0, Forward = 1 }
Reverse == 0
Forward == 1
\* enum dirKey { Normal = 0, Inverted = 1 }
Normal == 0
Inverted == 1
\* enum opMode { Run = 0, Fn = 1, Addr = 2 }
Run == 0
Fn == 1
Addr == 2
\* loco = 3 in setup()
DefaultLoco == 3
\* if (loco < 1 || loco > 10293) loco = oldLoco;
LOCO_MIN == 1
LOCO_MAX == 10293

\* keypad.getKey() returns NO_KEY when no key is pressed
NoKey == "none"
DigitKeys == {"0", "1", "2", "3", "4", "5", "6", "7", "8", "9"}
\* keyID[]: every character the keypad can return
AllKeys == {"A", "B", "#", "*", "C", "D", "E", "F", "G", "H"} \cup DigitKeys

\* key - '0'
DigitValue(k) ==
  CASE k = "0" -> 0 [] k = "1" -> 1 [] k = "2" -> 2 [] k = "3" -> 3
    [] k = "4" -> 4 [] k = "5" -> 5 [] k = "6" -> 6 [] k = "7" -> 7
    [] k = "8" -> 8 [] k = "9" -> 9

\* ------------------------------------------------------------ bounds
\* The UP key is explored only while speed < MaxUp in the specification that
\* explores the three modes together (SpecModes).
MaxUp == 2

Max(a, b) == IF a >= b THEN a ELSE b
Min(a, b) == IF a <= b THEN a ELSE b

VARIABLES
  mode,            \* enum opMode mode
  loco,            \* int loco: decoder address (the accumulator in Addr mode)
  oldLoco,         \* int oldLoco
  speed,           \* int speed
  oldSpeed,        \* int oldSpeed: speed saved when the brake was set
  dir,             \* enum dirState dir
  dirKeyMode,      \* enum dirKey dirKeyMode
  powerOnFlag,     \* bool powerOnFlag
  brakedFlag,      \* bool brakedFlag
  decrToStop,      \* bool decrToStop
  incrToOldSpeed,  \* bool incrToOldSpeed
  brakeTime,       \* int brakeTime, kept relative to millis(): 0 when
                   \* millis() >= brakeTime, brakeTimeIvl while it is ahead
  fnOnFlags,       \* int fnOnFlags[10]
  key,             \* observer: the key the latest loop() read
  serial,          \* observer: lines printed on Serial by the latest loop()
  display,         \* observer: what the latest UpdateDisplay() drew
  steps,           \* observer: ramp steps run by the latest loop()
  ticks,           \* observer: ramp steps run since the latest key press
  lastKey,         \* observer: the latest key pressed
  lastLoco,        \* observer: the latest loco command printed
  lastPower        \* observer: the latest track power command printed

prog == <<mode, loco, oldLoco, speed, oldSpeed, dir, dirKeyMode, powerOnFlag,
          brakedFlag, decrToStop, incrToOldSpeed, brakeTime, fnOnFlags>>

vars == <<mode, loco, oldLoco, speed, oldSpeed, dir, dirKeyMode, powerOnFlag,
          brakedFlag, decrToStop, incrToOldSpeed, brakeTime, fnOnFlags, key,
          serial, display, steps, ticks, lastKey, lastLoco, lastPower>>

\* The globals as one record.
Cur ==
  [mode |-> mode, loco |-> loco, oldLoco |-> oldLoco, speed |-> speed,
   oldSpeed |-> oldSpeed, dir |-> dir, dirKeyMode |-> dirKeyMode,
   powerOnFlag |-> powerOnFlag, brakedFlag |-> brakedFlag,
   decrToStop |-> decrToStop, incrToOldSpeed |-> incrToOldSpeed,
   brakeTime |-> brakeTime, fnOnFlags |-> fnOnFlags,
   serial |-> serial, display |-> display, steps |-> steps]

\* ------------------------------------------------------------ output
\* SendLocoCommand(): "<t loco speed dir>"
SendLocoCommand(s) ==
  [s EXCEPT !.serial = Append(@, <<"t", s.loco, s.speed, s.dir>>)]

\* SendFnCommand(k): "<F loco k fnOnFlags[k]>"
SendFnCommand(s, k) ==
  [s EXCEPT !.serial = Append(@, <<"F", s.loco, k, s.fnOnFlags[k]>>)]

\* Serial.println("<1 MAIN>") / Serial.println("<0 MAIN>")
SendPower(s, on) ==
  [s EXCEPT !.serial = Append(@, <<IF on THEN "1 MAIN" ELSE "0 MAIN">>)]

\* What UpdateDisplay() prints: the power line, the mode line, then the lines
\* of the mode.
Snapshot(s) ==
  CASE s.mode = Run ->
         <<IF s.powerOnFlag THEN "On" ELSE "Off", "Run", s.loco, s.speed,
           IF s.brakedFlag THEN "B" ELSE IF s.dir = 1 THEN "F" ELSE "R">>
    [] s.mode = Fn ->
         <<IF s.powerOnFlag THEN "On" ELSE "Off", "Fn">>
    [] s.mode = Addr ->
         <<IF s.powerOnFlag THEN "On" ELSE "Off", "Addr", s.loco>>

UpdateDisplay(s) == [s EXCEPT !.display = Snapshot(s)]

\* ------------------------------------------------------------ ramp steps
\* Mutant of DecrStep: decrToStop is not cleared when the speed reaches zero.
DecrStepNeverEnds(s) ==
  IF s.decrToStop /\ s.brakeTime = 0
  THEN LET v  == IF s.speed > speedStep THEN s.speed - speedStep ELSE 0
           s1 == [s EXCEPT !.speed = v,
                           !.brakeTime = brakeTimeIvl,
                           !.steps = @ + 1]
       IN  UpdateDisplay(SendLocoCommand(s1))
  ELSE s

\* Mutant of DecrStep: the loco command is printed before the speed changes.
DecrStepPrintsFirst(s) ==
  IF s.decrToStop /\ s.brakeTime = 0
  THEN LET v  == IF s.speed > speedStep THEN s.speed - speedStep ELSE 0
           s1 == SendLocoCommand(s)
       IN  UpdateDisplay([s1 EXCEPT
                            !.speed = v,
                            !.decrToStop = IF v = 0 THEN FALSE ELSE @,
                            !.brakeTime = IF v = 0 THEN @ ELSE brakeTimeIvl,
                            !.steps = @ + 1])
  ELSE s

\* if (decrToStop) { if (millis() >= brakeTime) { ... } }
DecrStep(s) ==
  IF s.decrToStop /\ s.brakeTime = 0
  THEN LET v  == IF s.speed > speedStep THEN s.speed - speedStep ELSE 0
           s1 == [s EXCEPT !.speed = v,
                           !.decrToStop = IF v = 0 THEN FALSE ELSE @,
                           !.brakeTime = IF v = 0 THEN @ ELSE brakeTimeIvl,
                           !.steps = @ + 1]
       IN  UpdateDisplay(SendLocoCommand(s1))
  ELSE s

\* if (incrToOldSpeed) { if (millis() >= brakeTime) { ... } }
IncrStep(s) ==
  IF s.incrToOldSpeed /\ s.brakeTime = 0
  THEN LET v  == IF s.speed <= s.oldSpeed - speedStep
                 THEN s.speed + speedStep ELSE s.oldSpeed
           s1 == [s EXCEPT !.speed = v,
                           !.incrToOldSpeed = IF v = s.oldSpeed THEN FALSE ELSE @,
                           !.brakedFlag = IF v = s.oldSpeed THEN FALSE ELSE @,
                           !.brakeTime = IF v = s.oldSpeed THEN @ ELSE brakeTimeIvl,
                           !.steps = @ + 1]
       IN  UpdateDisplay(SendLocoCommand(s1))
  ELSE s

\* ------------------------------------------------------------ Run mode keys
\* case 'A':   F1 key
FnModeKey(s) == UpdateDisplay([s EXCEPT !.mode = Fn])

\* case '*':
AddrModeKey(s) ==
  UpdateDisplay([s EXCEPT !.mode = Addr, !.oldLoco = s.loco, !.loco = 0])

\* Mutant of UpKey: the speed is not clamped at SPEED_MAX.
UpKeyNoClamp(s) ==
  IF ~s.brakedFlag
  THEN UpdateDisplay(SendLocoCommand(
         [s EXCEPT !.incrToOldSpeed = FALSE, !.speed = s.speed + speedStep]))
  ELSE s

\* Mutant of UpKey: the key is not inactive while braked.
UpKeyIgnoresBrake(s) ==
  UpdateDisplay(SendLocoCommand(
    [s EXCEPT !.incrToOldSpeed = FALSE,
              !.speed = IF s.speed < SPEED_MAX - speedStep
                        THEN s.speed + speedStep ELSE SPEED_MAX]))

\* case 'C':   Increment speed, UP key
UpKey(s) ==
  IF ~s.brakedFlag
  THEN UpdateDisplay(SendLocoCommand(
         [s EXCEPT !.incrToOldSpeed = FALSE,
                   !.speed = IF s.speed < SPEED_MAX - speedStep
                             THEN s.speed + speedStep ELSE SPEED_MAX]))
  ELSE s

\* Mutant of DownKey: the speed is not clamped at 0.
DownKeyNoClamp(s) ==
  IF ~s.brakedFlag
  THEN UpdateDisplay(SendLocoCommand(
         [s EXCEPT !.incrToOldSpeed = FALSE, !.speed = s.speed - speedStep]))
  ELSE s

\* case 'D':   Decrement speed, DOWN key
DownKey(s) ==
  IF ~s.brakedFlag
  THEN UpdateDisplay(SendLocoCommand(
         [s EXCEPT !.incrToOldSpeed = FALSE,
                   !.speed = IF s.speed > speedStep
                             THEN s.speed - speedStep ELSE 0]))
  ELSE s

\* case 'F':   LEFT direction key
LeftKey(s) ==
  UpdateDisplay(SendLocoCommand(
    [s EXCEPT !.dir = IF s.dirKeyMode = Normal THEN Forward ELSE Reverse]))

\* Mutant of BrakeKey: releasing the brake leaves brakedFlag set until the
\* release ramp ends.
BrakeKeyHolds(s) ==
  IF s.brakedFlag
  THEN [s EXCEPT !.incrToOldSpeed = TRUE, !.brakeTime = brakeTimeIvl]
  ELSE [s EXCEPT !.brakedFlag = TRUE, !.oldSpeed = s.speed,
                 !.decrToStop = TRUE, !.brakeTime = brakeTimeIvl]

\* case '0':   Brake key  (brakeTime = millis() + brakeTimeIvl)
BrakeKey(s) ==
  IF s.brakedFlag
  THEN [s EXCEPT !.incrToOldSpeed = TRUE, !.brakedFlag = FALSE,
                 !.brakeTime = brakeTimeIvl]
  ELSE [s EXCEPT !.brakedFlag = TRUE, !.oldSpeed = s.speed,
                 !.decrToStop = TRUE, !.brakeTime = brakeTimeIvl]

\* Mutant of RightKey: the direction keys mode is not looked at.
RightKeyIgnoresMode(s) ==
  UpdateDisplay(SendLocoCommand([s EXCEPT !.dir = Reverse]))

\* case 'G':   RIGHT direction key
RightKey(s) ==
  UpdateDisplay(SendLocoCommand(
    [s EXCEPT !.dir = IF s.dirKeyMode = Normal THEN Reverse ELSE Forward]))

\* Mutant of StopKey: the ramp to zero is not cancelled.
StopKeyKeepsRamp(s) ==
  UpdateDisplay(SendLocoCommand(
    [s EXCEPT !.speed = 0, !.brakedFlag = FALSE, !.incrToOldSpeed = FALSE]))

\* case 'H':   Stop, stop brake speed changes, ENTER key
StopKey(s) ==
  UpdateDisplay(SendLocoCommand(
    [s EXCEPT !.speed = 0, !.brakedFlag = FALSE,
              !.incrToOldSpeed = FALSE, !.decrToStop = FALSE]))

\* Mutant of PowerKey: the command printed is that of the state left.
PowerKeyPrintsOld(s) ==
  IF ~s.powerOnFlag
  THEN UpdateDisplay([SendPower(s, FALSE) EXCEPT !.powerOnFlag = TRUE])
  ELSE UpdateDisplay([SendPower(s, TRUE) EXCEPT !.powerOnFlag = FALSE])

\* case '#':   Toggle track power
PowerKey(s) ==
  IF ~s.powerOnFlag
  THEN UpdateDisplay([SendPower(s, TRUE) EXCEPT !.powerOnFlag = TRUE])
  ELSE UpdateDisplay([SendPower(s, FALSE) EXCEPT !.powerOnFlag = FALSE])

\* case 'E':   Toggle direction keys mode, ESC key
EscKey(s) ==
  [s EXCEPT !.dirKeyMode = IF @ = Normal THEN Inverted ELSE Normal]

\* case Run: switch (key) { ... }
RunKey(s, k) ==
  CASE k = "A" -> FnModeKey(s)
    [] k = "*" -> AddrModeKey(s)
    [] k = "C" -> UpKey(s)
    [] k = "D" -> DownKey(s)
    [] k = "F" -> LeftKey(s)
    [] k = "0" -> BrakeKey(s)
    [] k = "G" -> RightKey(s)
    [] k = "H" -> StopKey(s)
    [] k = "#" -> PowerKey(s)
    [] k = "E" -> EscKey(s)
    [] OTHER -> s

\* ------------------------------------------------------------ Fn mode keys
\* Mutant of ToggleFnOnFlag: the flag is set, never cleared.
ToggleFnOnFlagSetsOnly(s, i) ==
  [s EXCEPT !.fnOnFlags[i] = 1]

\* ToggleFnOnFlag(i)
ToggleFnOnFlag(s, i) ==
  [s EXCEPT !.fnOnFlags[i] = IF @ = 0 THEN 1 ELSE 0]

\* Mutant of FnKey: '*' enters Addr mode from Fn mode.
FnKeyStarEntersAddr(s, k) ==
  IF k \in DigitKeys
  THEN LET keyNum == DigitValue(k)
       IN  UpdateDisplay([SendFnCommand(ToggleFnOnFlag(s, keyNum), keyNum)
                            EXCEPT !.mode = Run])
  ELSE IF k = "E" THEN UpdateDisplay([s EXCEPT !.mode = Run])
       ELSE IF k = "*" THEN AddrModeKey(s) ELSE s

\* case Fn:
FnKey(s, k) ==
  IF k \in DigitKeys
  THEN LET keyNum == DigitValue(k)
       IN  UpdateDisplay([SendFnCommand(ToggleFnOnFlag(s, keyNum), keyNum)
                            EXCEPT !.mode = Run])
  ELSE IF k = "E" THEN UpdateDisplay([s EXCEPT !.mode = Run]) ELSE s

\* ------------------------------------------------------------ Addr mode keys
\* int is 32 bits wide on the STM32: INT_MAX, and INT_MIN = -INT_MAX - 1
INT_MAX == 2147483647

\* 10*x + d is an int
ProductFits(x, d) ==
  /\ x <= (INT_MAX - d) \div 10
  /\ x >= -(((INT_MAX - 9 + d) \div 10) + 1)

\* 10*x + d modulo 2^32 as a two's complement int, computed on the two
\* 16-bit halves of x
Wrap32(x, d) ==
  LET lo == 10 * (x % 65536) + d
      hi == 10 * (x \div 65536) + (lo \div 65536)
  IN  (((hi + 32768) % 65536) - 32768) * 65536 + (lo % 65536)

\* What loco = 10*loco + d can leave.  Signed overflow is undefined: the
\* usual build wraps, another may leave any int, of which one is kept from
\* each side of the range check of ENTER.
Accumulated(x, d) ==
  IF ProductFits(x, d) THEN {10 * x + d}
  ELSE {Wrap32(x, d), -1, 0, LOCO_MIN, LOCO_MAX, LOCO_MAX + 1}

\* loco = v; UpdateDisplay();
AddrDigitTo(s, v) == UpdateDisplay([s EXCEPT !.loco = v])

\* loco = 10*loco + (key - '0');  when the product fits an int, which it does
\* wherever a specification below lets LoopBody handle a digit
AddrDigit(s, k) == AddrDigitTo(s, 10 * s.loco + DigitValue(k))

\* case 'E':   Escape out of Addr mode, ESC key
AddrCancel(s) == UpdateDisplay([s EXCEPT !.loco = s.oldLoco, !.mode = Run])

\* Mutant of AddrCommit: the upper limit itself is rejected.
AddrCommitExclusive(s) ==
  UpdateDisplay(
    [s EXCEPT !.loco = IF s.loco < LOCO_MIN \/ s.loco >= LOCO_MAX
                       THEN s.oldLoco ELSE s.loco,
              !.mode = Run])

\* case 'H':   Enter new address if within address range, ENTER key
AddrCommit(s) ==
  UpdateDisplay(
    [s EXCEPT !.loco = IF s.loco < LOCO_MIN \/ s.loco > LOCO_MAX
                       THEN s.oldLoco ELSE s.loco,
              !.mode = Run])

\* case Addr:
AddrKey(s, k) ==
  IF k \in DigitKeys
  THEN AddrDigit(s, k)
  ELSE CASE k = "E" -> AddrCancel(s)
         [] k = "H" -> AddrCommit(s)
         [] OTHER -> s

\* ------------------------------------------------------------ loop()
\* millis() reaches brakeTime
Pass(s) == [s EXCEPT !.brakeTime = 0]

\* Mutant of LoopBody: the ramp steps run in every mode.
LoopBodyRampAnyMode(s, k, late) ==
  LET s0 == [s EXCEPT !.serial = <<>>, !.steps = 0]
      s1 == DecrStep(s0)
      s2 == IncrStep(IF late /\ s1.steps = 0 THEN Pass(s1) ELSE s1)
  IN  CASE s.mode = Run  -> RunKey(s2, k)
        [] s.mode = Fn   -> FnKey(s2, k)
        [] s.mode = Addr -> AddrKey(s2, k)

\* One call of loop() that reads key k.  One call takes less than
\* brakeTimeIvl, so a deadline set by the first ramp step is not reached by
\* the second; `late` is the case of millis() reaching brakeTime between the
\* first ramp step's millis() and the second's.
LoopBody(s, k, late) ==
  LET s0 == [s EXCEPT !.serial = <<>>, !.steps = 0]
      s1 == DecrStep(s0)
      s2 == IncrStep(IF late /\ s1.steps = 0 THEN Pass(s1) ELSE s1)
  IN  CASE s.mode = Run  -> RunKey(s2, k)
        [] s.mode = Fn   -> FnKey(s0, k)
        [] s.mode = Addr -> AddrKey(s0, k)

\* setup()
Init ==
  /\ mode = Run
  /\ speed = 0
  /\ dir = Forward
  /\ dirKeyMode = Normal
  /\ loco = DefaultLoco
  /\ brakedFlag = FALSE
  /\ decrToStop = FALSE
  /\ incrToOldSpeed = FALSE
  /\ powerOnFlag = FALSE
  /\ fnOnFlags = [j \in 0..9 |-> 0]
  \* globals that setup() leaves alone are zero-initialised
  /\ oldLoco = 0
  /\ oldSpeed = 0
  /\ brakeTime = 0
  \* UpdateDisplay() at the end of setup()
  /\ display = <<"Off", "Run", DefaultLoco, 0, "F">>
  /\ key = NoKey
  /\ serial = <<>>
  /\ steps = 0
  /\ ticks = 0
  /\ lastKey = NoKey
  /\ lastLoco = <<>>
  /\ lastPower = <<>>

\* The globals after the call
SetProgram(t) ==
  /\ mode' = t.mode
  /\ loco' = t.loco
  /\ oldLoco' = t.oldLoco
  /\ speed' = t.speed
  /\ oldSpeed' = t.oldSpeed
  /\ dir' = t.dir
  /\ dirKeyMode' = t.dirKeyMode
  /\ powerOnFlag' = t.powerOnFlag
  /\ brakedFlag' = t.brakedFlag
  /\ decrToStop' = t.decrToStop
  /\ incrToOldSpeed' = t.incrToOldSpeed
  /\ brakeTime' = t.brakeTime
  /\ fnOnFlags' = t.fnOnFlags

\* What the call printed and drew
SetOutput(t) ==
  /\ serial' = t.serial
  /\ display' = t.display
  /\ steps' = t.steps

\* `late` only matters to a release ramp that waits for brakeTime
CanBeLate(late) ==
  late => (mode = Run /\ incrToOldSpeed /\ brakeTime > 0)

\* loop() called once, reading key k
Loop(k, late) ==
  /\ CanBeLate(late)
  /\ \E t \in {LoopBody(Cur, k, late)} : SetProgram(t) /\ SetOutput(t)
  /\ key' = k
  /\ UNCHANGED <<ticks, lastKey, lastLoco, lastPower>>

\* loop() called once, counting the ramp steps since the latest key
LoopCounted(k, late) ==
  /\ CanBeLate(late)
  /\ \E t \in {LoopBody(Cur, k, late)} :
       /\ SetProgram(t)
       /\ SetOutput(t)
       /\ ticks' = IF k = NoKey THEN ticks + t.steps ELSE 0
  /\ key' = k
  /\ UNCHANGED <<lastKey, lastLoco, lastPower>>

\* loop() called once, the output not observed
LoopUnobserved(k, late) ==
  /\ CanBeLate(late)
  /\ \E t \in {LoopBody(Cur, k, late)} : SetProgram(t)
  /\ UNCHANGED <<key, serial, display, steps, ticks, lastKey, lastLoco,
                 lastPower>>

\* loop() called once in Addr mode, reading digit key k: case Addr runs no
\* ramp step, and the digit handler leaves one of the values of Accumulated
LoopDigit(k) ==
  /\ mode = Addr
  /\ k \in DigitKeys
  /\ \E v \in Accumulated(loco, DigitValue(k)) :
       \E t \in {AddrDigitTo([Cur EXCEPT !.serial = <<>>, !.steps = 0], v)} :
         SetProgram(t) /\ SetOutput(t)
  /\ key' = k
  /\ UNCHANGED <<ticks, lastKey, lastLoco, lastPower>>

\* The latest line of out that begins with tag, or old when there is none
LatestLine(out, tag, old) ==
  LET at == {i \in 1..Len(out) : out[i][1] \in tag}
  IN  IF at = {} THEN old
      ELSE out[CHOOSE i \in at : \A j \in at : j <= i]

\* loop() called once, the latest key pressed recorded
LoopKeyed(k, late) ==
  /\ CanBeLate(late)
  /\ \E t \in {LoopBody(Cur, k, late)} : SetProgram(t) /\ SetOutput(t)
  /\ key' = k
  /\ lastKey' = IF k = NoKey THEN lastKey ELSE k
  /\ UNCHANGED <<ticks, lastLoco, lastPower>>

\* loop() called once, the latest commands printed recorded
LoopTraced(k, late) ==
  /\ CanBeLate(late)
  /\ \E t \in {LoopBody(Cur, k, late)} :
       /\ SetProgram(t)
       /\ SetOutput(t)
       /\ lastLoco' = LatestLine(t.serial, {"t"}, lastLoco)
       /\ lastPower' = LatestLine(t.serial, {"1 MAIN", "0 MAIN"}, lastPower)
  /\ key' = k
  /\ UNCHANGED <<ticks, lastKey>>

\* millis() reaches brakeTime between two calls of loop()
Elapse ==
  /\ brakeTime > 0
  /\ brakeTime' = 0
  /\ UNCHANGED <<mode, loco, oldLoco, speed, oldSpeed, dir, dirKeyMode,
                 powerOnFlag, brakedFlag, decrToStop, incrToOldSpeed,
                 fnOnFlags, key, serial, display, steps, ticks, lastKey,
                 lastLoco, lastPower>>

\* ------------------------------------------------------------ specifications
\* Spec: Run mode under its speed, brake and stop keys, from setup().
ThrottleKeys == {NoKey, "C", "D", "0", "H"}

Next ==
  \/ Elapse
  \/ \E k \in ThrottleKeys, late \in BOOLEAN : Loop(k, late)

Spec == Init /\ [][Next]_vars

\* SpecAll: the three modes under the keys that change speed or mode, the
\* full speed range, the output not observed.
NextAll ==
  \/ Elapse
  \/ \E k \in ThrottleKeys \cup {"A", "*"}, late \in BOOLEAN :
       mode = Run /\ LoopUnobserved(k, late)
  \/ \E k \in {"E", "H", "C", "D"} :
       mode # Run /\ LoopUnobserved(k, FALSE)

SpecAll == Init /\ [][NextAll]_vars

\* SpecModes: the three modes with the output observed, at low speed.  The
\* addresses typed in Addr mode are those of Typed: a digit key is explored
\* when the accumulator stays the beginning of one of them.
Typed == {7, 10293, 10294}

CanType(n) == \E a \in Typed, j \in 0..4 : a \div (10 ^ j) = n

ModesRunKeys == {NoKey, "C", "0", "H", "A", "*"}
ModesFnKeys == {NoKey, "1", "E", "H"}
ModesAddrKeys == {NoKey, "E", "H", "C"} \cup DigitKeys

NextModes ==
  \/ Elapse
  \/ \E k \in ModesRunKeys, late \in BOOLEAN :
       /\ mode = Run
       /\ k = "C" => speed < MaxUp
       /\ Loop(k, late)
  \/ \E k \in ModesFnKeys : mode = Fn /\ Loop(k, FALSE)
  \/ \E k \in ModesAddrKeys :
       /\ mode = Addr
       /\ k \in DigitKeys => CanType(10 * loco + DigitValue(k))
       /\ Loop(k, FALSE)

SpecModes == Init /\ [][NextModes]_vars

\* SpecTrip: the brake set and released, each time once the ramp before has
\* ended, from the state s presses of UP leave after setup().
InitTrip ==
  \E s0 \in 1..SPEED_MAX :
    /\ mode = Run
    /\ speed = s0
    /\ dir = Forward
    /\ dirKeyMode = Normal
    /\ loco = DefaultLoco
    /\ brakedFlag = FALSE
    /\ decrToStop = FALSE
    /\ incrToOldSpeed = FALSE
    /\ powerOnFlag = FALSE
    /\ fnOnFlags = [j \in 0..9 |-> 0]
    /\ oldLoco = 0
    /\ oldSpeed = 0
    /\ brakeTime = 0
    /\ display = <<"Off", "Run", DefaultLoco, s0, "F">>
    /\ key = "C"
    /\ serial = << <<"t", DefaultLoco, s0, Forward>> >>
    /\ steps = 0
    /\ ticks = 0
    /\ lastKey = NoKey
    /\ lastLoco = <<>>
    /\ lastPower = <<>>

NextTrip ==
  \/ Elapse
  \/ \E late \in BOOLEAN : LoopCounted(NoKey, late)
  \/ ~decrToStop /\ ~incrToOldSpeed /\ LoopCounted("0", FALSE)

SpecTrip == InitTrip /\ [][NextTrip]_vars

\* SpecFn: Fn mode under every digit key, entered from Run mode at rest with
\* or without a brake ramp under way.
FnRunKeys == {NoKey, "A", "0"}
FnFnKeys == {NoKey, "E"} \cup DigitKeys

NextFn ==
  \/ Elapse
  \/ \E k \in FnRunKeys, late \in BOOLEAN :
       /\ mode = Run
       /\ Loop(k, late)
  \/ \E k \in FnFnKeys : mode = Fn /\ Loop(k, FALSE)

SpecFn == Init /\ [][NextFn]_vars

\* SpecPanel: every Run mode key at low speed, Fn and Addr mode entered and
\* left, the latest commands printed recorded.  In Addr mode one digit is
\* typed.
PanelRunKeys == {NoKey, "A", "#", "*", "C", "0", "E", "F", "G", "H"}
PanelFnKeys == {"1", "E", "#", "*"}
PanelAddrKeys == {"7", "E", "H", "A"}

NextPanel ==
  \/ Elapse
  \/ \E k \in PanelRunKeys, late \in BOOLEAN :
       /\ mode = Run
       /\ k = "C" => speed < MaxUp
       /\ LoopTraced(k, late)
  \/ \E k \in PanelFnKeys : mode = Fn /\ LoopTraced(k, FALSE)
  \/ \E k \in PanelAddrKeys :
       /\ mode = Addr
       /\ k \in DigitKeys => loco = 0
       /\ LoopTraced(k, FALSE)

SpecPanel == Init /\ [][NextPanel]_vars

\* SpecBrake: Run mode under the UP, Brake and Stop keys at low speed, the
\* latest key pressed recorded.
BrakeKeys == {NoKey, "C", "0", "H"}

NextBrake ==
  \/ Elapse
  \/ \E k \in BrakeKeys, late \in BOOLEAN :
       /\ k = "C" => speed < MaxUp
       /\ LoopKeyed(k, late)

SpecBrake == Init /\ [][NextBrake]_vars

\* SpecBrakeFair: the same, loop() called again and again and millis()
\* advancing.
PollNoKey == \E late \in BOOLEAN : LoopKeyed(NoKey, late)

SpecBrakeFair == SpecBrake /\ WF_vars(Elapse) /\ WF_vars(PollNoKey)

\* SpecDigits: Addr mode under long digit sequences: the nine digits of one
\* of LongTyped, then any tenth digit.
LongTyped == {214748364, 300000000, 429496729}

CanTypeLong(n) == \E a \in LongTyped, j \in 0..9 : a \div (10 ^ j) = n

DigitsRunKeys == {NoKey, "*", "#"}
DigitsAddrKeys == {NoKey, "E", "H"}

NextDigits ==
  \/ \E k \in DigitsRunKeys : mode = Run /\ Loop(k, FALSE)
  \/ \E k \in DigitsAddrKeys : mode = Addr /\ Loop(k, FALSE)
  \/ \E k \in DigitKeys :
       /\ \/ loco \in LongTyped
          \/ /\ loco \in 0..99999999
             /\ CanTypeLong(10 * loco + DigitValue(k))
       /\ LoopDigit(k)

SpecDigits == Init /\ [][NextDigits]_vars

\* ------------------------------------------------------------ properties
\* A step of loop(), as opposed to a step of the clock
LoopStep == ~Elapse

\* No ramp is active, the speed is zero and the brake is off
Stopped == speed = 0 /\ ~brakedFlag /\ ~decrToStop /\ ~incrToOldSpeed

\* The step leaves the globals and the output of the call as in record t
SameAs(t) == SetProgram(t) /\ SetOutput(t)

\* The state a call of loop() leaves when it reads no key: the state in which
\* the key handler of a call that does read one starts
AfterRamps(late) == LoopBody(Cur, NoKey, late)

\* C1: in every reachable state, whatever the mode and whatever keys and
\* ramp steps came before, 0 <= speed <= 127.
SpeedInRange == speed >= 0 /\ speed <= SPEED_MAX

\* C1 witness: the speed was driven to the top, braked to zero and ramped
\* back to the top, and the throttle has been through Addr mode and is in Fn
\* mode.
SpeedInRangeWitness ==
  /\ mode = Fn
  /\ oldLoco = DefaultLoco
  /\ speed = SPEED_MAX
  /\ oldSpeed = SPEED_MAX
  /\ ~brakedFlag /\ ~decrToStop /\ ~incrToOldSpeed

\* C2: in Run mode the Stop key leaves speed 0, the brake off and no ramp
\* active, whatever the state it is pressed in, and the last line it prints
\* is the one loco command of the key, carrying speed 0; pressed in that
\* state again it changes nothing; and while no other key is pressed no ramp
\* step runs and the speed stays 0.
StopIsTerminal ==
  [][/\ (key' = "H" /\ LoopStep) =>
          /\ Stopped'
          /\ Len(serial') = steps' + 1
          /\ serial'[Len(serial')] = <<"t", loco, 0, dir>>
     /\ (Stopped /\ key' = "H" /\ LoopStep) =>
          /\ UNCHANGED prog
          /\ serial' = << <<"t", loco, 0, dir>> >>
     /\ (Stopped /\ key' \in {NoKey, "H"}) =>
          /\ Stopped'
          /\ LoopStep => steps' = 0]_vars

\* C2 witness: Stop pressed in the call of loop() in which a ramp step ran
\* and left the speed above zero.
StopIsTerminalWitness ==
  /\ key = "H"
  /\ steps = 1
  /\ Len(serial) = 2
  /\ serial[1][3] > 0
  /\ serial[2][3] = 0
  /\ Stopped

\* C3 (as claimed): the ramp to zero and the ramp to the saved speed are
\* never both active.
OneRampAtATime == ~(decrToStop /\ incrToOldSpeed)

\* C4: the brake round trip.  From speed s, not braked, no ramp active, and
\* with no key but Brake pressed: after Brake, the n-th ramp step leaves
\* speed s - n, the ramp is active exactly until the s-th, which leaves
\* speed 0; after the second Brake the n-th ramp step leaves speed n, the
\* ramp is active exactly until the s-th, which leaves speed s, the brake
\* off and no ramp active.  (oldSpeed is s from the first Brake on: the key
\* saves the speed and leaves it unchanged.)
BrakeRoundTrip ==
  /\ [](/\ brakedFlag =>
             /\ ~incrToOldSpeed
             /\ speed = oldSpeed - ticks
             /\ decrToStop <=> (ticks < oldSpeed)
        /\ (~brakedFlag /\ incrToOldSpeed) =>
             /\ ~decrToStop
             /\ speed = ticks
             /\ ticks < oldSpeed
        /\ (~brakedFlag /\ ~incrToOldSpeed) =>
             /\ ~decrToStop
             /\ \/ oldSpeed = 0 /\ ticks = 0 /\ speed >= 1
                \/ speed = oldSpeed /\ ticks = oldSpeed)
  /\ [][(key' = "0" /\ LoopStep) =>
          /\ speed' = speed
          /\ oldSpeed' = IF brakedFlag THEN oldSpeed ELSE speed
          /\ oldSpeed' >= 1]_vars

\* C4 witness: the round trip from speed 60 is over: 60 ramp steps after the
\* second Brake the speed is 60 again, the brake off and no ramp active.
BrakeRoundTripWitness ==
  /\ key = NoKey
  /\ speed = 60
  /\ oldSpeed = 60
  /\ ticks = 60
  /\ ~brakedFlag /\ ~decrToStop /\ ~incrToOldSpeed

\* C5 (as claimed): while the release ramp is active, braked is true.
BrakedWhileReleasing == incrToOldSpeed => brakedFlag

\* C5 (amended): the Brake key pressed while braked, with no release ramp
\* running, clears braked at once and starts the release ramp; and an UP or
\* DOWN key handled while braked is false is not a no-op during the release
\* ramp: it cancels the ramp and prints one loco command.
ReleaseClearsBraked ==
  [][/\ (key' = "0" /\ LoopStep /\ brakedFlag /\ ~incrToOldSpeed) =>
          /\ ~brakedFlag'
          /\ incrToOldSpeed'
          /\ brakeTime' = brakeTimeIvl
          /\ oldSpeed' = oldSpeed
     /\ (key' \in {"C", "D"} /\ LoopStep /\ ~brakedFlag') =>
          /\ ~incrToOldSpeed'
          /\ Len(serial') = steps' + 1]_vars

\* C5 witness: UP pressed in a call of loop() whose release ramp step left
\* the speed below the saved speed; the ramp is cancelled.
ReleaseClearsBrakedWitness ==
  /\ key = "C"
  /\ steps = 1
  /\ Len(serial) = 2
  /\ speed >= 2
  /\ speed < oldSpeed
  /\ ~brakedFlag /\ ~decrToStop /\ ~incrToOldSpeed

\* C6: in Run mode an UP or DOWN key handled while braked changes nothing
\* and prints nothing: the call of loop() leaves what a call without a key
\* leaves, and when no ramp step was due it leaves every global as it was.
SpeedKeysInactiveWhileBraked ==
  [][(key' \in {"C", "D"} /\ LoopStep /\ brakedFlag') =>
       /\ Len(serial') = steps'
       /\ \E late \in BOOLEAN : CanBeLate(late) /\ SameAs(AfterRamps(late))
       /\ steps' = 0 =>
            /\ UNCHANGED prog
            /\ serial' = <<>>
            /\ display' = display]_vars

\* C6 witness: UP pressed while braked and ramping to zero, nothing printed.
SpeedKeysInactiveWhileBrakedWitness ==
  /\ key = "C"
  /\ brakedFlag
  /\ decrToStop
  /\ speed > 0
  /\ steps = 0
  /\ serial = <<>>

\* C7: in Run mode, not braked, UP sets speed to min(speed + 1, 127) and
\* DOWN to max(speed - 1, 0), speed being the speed the key handler finds
\* (after the ramp steps of the same call), and the key prints exactly one
\* loco command, carrying the new speed.
SpeedKeysStepByOne ==
  [][(key' \in {"C", "D"} /\ LoopStep /\ ~brakedFlag') =>
       /\ \E late \in BOOLEAN :
            /\ CanBeLate(late)
            /\ steps' = AfterRamps(late).steps
            /\ speed' = IF key' = "C"
                        THEN Min(AfterRamps(late).speed + speedStep, SPEED_MAX)
                        ELSE Max(AfterRamps(late).speed - speedStep, 0)
            /\ serial' = Append(AfterRamps(late).serial,
                                <<"t", loco, speed', dir>>)
       /\ steps' = 0 =>
            /\ speed' = IF key' = "C" THEN Min(speed + speedStep, SPEED_MAX)
                                      ELSE Max(speed - speedStep, 0)
            /\ serial' = << <<"t", loco, speed', dir>> >>]_vars

\* C7 witness: UP has left the speed at the top, one loco command printed.
SpeedKeysStepByOneWitness ==
  /\ key = "C"
  /\ ~brakedFlag
  /\ steps = 0
  /\ speed = SPEED_MAX
  /\ serial = << <<"t", loco, SPEED_MAX, dir>> >>

\* C8: in Addr mode ENTER keeps the typed address if and only if it lies in
\* 1..10293 and otherwise (no digit typed included) restores the address of
\* before the entry, ESC always restores it, and both return to Run mode and
\* print nothing.  The address of before the entry is oldLoco: '*' saves
\* loco there and nothing changes it while the mode stays Addr.
AddrCommitOrRestore ==
  [][LoopStep =>
       /\ (mode = Run /\ key' = "*") =>
            /\ mode' = Addr
            /\ oldLoco' = loco
            /\ loco' = 0
       /\ (mode = Addr /\ mode' = Addr) => oldLoco' = oldLoco
       /\ (mode = Addr /\ key' = "H") =>
            /\ loco' = IF loco \in LOCO_MIN..LOCO_MAX THEN loco ELSE oldLoco
            /\ mode' = Run
            /\ serial' = <<>>
       /\ (mode = Addr /\ key' = "E") =>
            /\ loco' = oldLoco
            /\ mode' = Run
            /\ serial' = <<>>]_vars

\* C8 witness: ENTER has accepted the largest address and printed nothing.
AddrCommitOrRestoreWitness ==
  /\ key = "H"
  /\ mode = Run
  /\ loco = LOCO_MAX
  /\ oldLoco = DefaultLoco
  /\ serial = <<>>

\* The printed command carries an address (loco and function commands do)
HasAddress(cmd) == cmd[1] \in {"t", "F"}

\* C9: every loco and function command printed carries an address in
\* 1..10293: outside Addr mode loco is such an address, and a call of loop()
\* in Addr mode prints nothing, a ramp step no more than a key.
AddressesValid ==
  /\ [](/\ mode # Addr => loco \in LOCO_MIN..LOCO_MAX
        /\ \A i \in 1..Len(serial) :
             HasAddress(serial[i]) => serial[i][2] \in LOCO_MIN..LOCO_MAX)
  /\ [][(LoopStep /\ mode = Addr) => serial' = <<>>]_vars

\* C9 witness: a call of loop() without a key in Addr mode, the address half
\* typed and a ramp step due, has printed nothing.
AddressesValidWitness ==
  /\ key = NoKey
  /\ mode = Addr
  /\ loco = 1029
  /\ decrToStop
  /\ speed > 0
  /\ brakeTime = 0
  /\ serial = <<>>

\* C10 (as claimed): in every mode, a call of loop() made while a ramp is
\* active and its deadline reached performs a ramp step.
RampAdvancesInEveryMode ==
  [][(LoopStep /\ (decrToStop \/ incrToOldSpeed) /\ brakeTime = 0) =>
       steps' >= 1]_vars

\* C11: in Fn mode a digit key d flips fnOnFlags[d] and no other flag,
\* leaves the other globals as they were, prints one function command for d
\* that carries the new flag, and returns to Run mode; the same digit keyed
\* again after F1 restores the flag, the two commands carrying the flipped
\* flag and then the original one.
FnDigitToggles ==
  /\ [](/\ fnOnFlags \in [0..9 -> {0, 1}]
        /\ mode = Fn =>
             \A k \in DigitKeys :
               LET d      == DigitValue(k)
                   once   == LoopBody(Cur, k, FALSE)
                   again  == LoopBody(LoopBody(once, "A", FALSE), k, FALSE)
               IN  /\ once.serial = << <<"F", loco, d, 1 - fnOnFlags[d]>> >>
                   /\ again.serial = << <<"F", loco, d, fnOnFlags[d]>> >>
                   /\ again.fnOnFlags = fnOnFlags)
  /\ [][(mode = Fn /\ key' \in DigitKeys /\ LoopStep) =>
          LET d == DigitValue(key')
          IN  /\ fnOnFlags' = [fnOnFlags EXCEPT ![d] = 1 - @]
              /\ serial' = << <<"F", loco, d, fnOnFlags'[d]>> >>
              /\ mode' = Run
              /\ UNCHANGED <<loco, oldLoco, speed, oldSpeed, dir, dirKeyMode,
                             powerOnFlag, brakedFlag, decrToStop,
                             incrToOldSpeed, brakeTime>>]_vars

\* C11 witness: digit 1 keyed a second time has cleared the flag again and
\* printed the function command that carries 0.
FnDigitTogglesWitness ==
  /\ key = "1"
  /\ mode = Run
  /\ fnOnFlags[1] = 0
  /\ serial = << <<"F", DefaultLoco, 1, 0>> >>

\* C12: in Run mode LEFT sets dir to Forward when dirKeyMode is Normal and
\* to Reverse when it is Inverted, RIGHT the opposite; ESC changes
\* dirKeyMode only (whatever else the call of loop() leaves is what a call
\* without a key leaves: dir as it was, nothing printed by the key), and ESC
\* pressed twice restores what LEFT and RIGHT do.
DirectionKeys ==
  /\ [](/\ dirKeyMode \in {Normal, Inverted}
        /\ mode = Run =>
             LET twice == LoopBody(LoopBody(Cur, "E", FALSE), "E", FALSE)
             IN  /\ LoopBody(twice, "F", FALSE).dir = LoopBody(Cur, "F", FALSE).dir
                 /\ LoopBody(twice, "G", FALSE).dir = LoopBody(Cur, "G", FALSE).dir)
  /\ [][(mode = Run /\ LoopStep) =>
          /\ key' = "F" =>
               /\ dir' = IF dirKeyMode = Normal THEN Forward ELSE Reverse
               /\ dirKeyMode' = dirKeyMode
               /\ lastLoco' = <<"t", loco, speed', dir'>>
          /\ key' = "G" =>
               /\ dir' = IF dirKeyMode = Normal THEN Reverse ELSE Forward
               /\ dirKeyMode' = dirKeyMode
               /\ lastLoco' = <<"t", loco, speed', dir'>>
          /\ key' = "E" =>
               /\ dirKeyMode' = IF dirKeyMode = Normal THEN Inverted ELSE Normal
               /\ dir' = dir
               /\ \E late \in {b \in BOOLEAN : CanBeLate(b)} :
                    \E m \in {AfterRamps(late)} :
                      /\ SetOutput(m)
                      /\ SetProgram([m EXCEPT !.dirKeyMode = dirKeyMode'])]_vars

\* C12 witness: RIGHT pressed with the direction keys inverted has set the
\* direction to Forward and printed it.
DirectionKeysWitness ==
  /\ key = "G"
  /\ dirKeyMode = Inverted
  /\ dir = Forward
  /\ serial = << <<"t", loco, speed, Forward>> >>

\* The track power commands among the lines of out
PowerLines(out) == SelectSeq(out, LAMBDA c : c[1] \in {"1 MAIN", "0 MAIN"})

\* C13: '#' in Run mode flips powerOnFlag and prints exactly one track power
\* command, "<1 MAIN>" if and only if powerOnFlag is now true; no other step
\* changes powerOnFlag or prints such a command; so the latest track power
\* command printed, if any, agrees with powerOnFlag.
TrackPowerAgrees ==
  /\ [](lastPower # <<>> =>
          lastPower = <<IF powerOnFlag THEN "1 MAIN" ELSE "0 MAIN">>)
  /\ [][IF mode = Run /\ key' = "#" /\ LoopStep
        THEN /\ powerOnFlag' = ~powerOnFlag
             /\ PowerLines(serial') =
                  << <<IF powerOnFlag' THEN "1 MAIN" ELSE "0 MAIN">> >>
             /\ lastPower' = PowerLines(serial')[1]
        ELSE /\ powerOnFlag' = powerOnFlag
             /\ LoopStep => PowerLines(serial') = <<>>
             /\ lastPower' = lastPower]_vars

\* C13 witness: '#' pressed a second time has switched the power off again
\* and printed "<0 MAIN>".
TrackPowerAgreesWitness ==
  /\ key = "#"
  /\ mode = Run
  /\ ~powerOnFlag
  /\ lastPower = <<"0 MAIN">>
  /\ PowerLines(serial) = << <<"0 MAIN">> >>

\* C14: every ramp step prints exactly one loco command, which carries the
\* speed the step has set, and every call of loop() that changes speed or
\* dir prints a loco command after the change; so the latest loco command
\* printed, if any, carries the speed and the direction of the moment.
NoStaleLocoCommand ==
  /\ [](lastLoco # <<>> => (lastLoco[3] = speed /\ lastLoco[4] = dir))
  /\ [][LoopStep =>
          /\ \E late \in {b \in BOOLEAN : CanBeLate(b)} :
               \E m \in {AfterRamps(late)} :
                 /\ steps' = m.steps
                 /\ SubSeq(serial', 1, steps') = m.serial
                 /\ steps' >= 1 =>
                      serial'[steps'] = <<"t", loco, m.speed, dir>>
                 /\ steps' = 2 => serial'[1] = <<"t", loco, 0, dir>>
          /\ (speed' # speed \/ dir' # dir) =>
               /\ serial' # <<>>
               /\ lastLoco' = LatestLine(serial', {"t"}, <<>>)
               /\ lastLoco'[3] = speed'
               /\ lastLoco'[4] = dir']_vars

\* C14 witness: a call of loop() has run the last step of the ramp to zero
\* and then the release ramp step, and printed one loco command for each.
NoStaleLocoCommandWitness ==
  /\ key = NoKey
  /\ steps = 2
  /\ speed = 1
  /\ serial = << <<"t", loco, 0, dir>>, <<"t", loco, 1, dir>> >>
  /\ lastLoco = <<"t", loco, 1, dir>>

\* C15 (as claimed): at the end of every call of loop() the display shows
\* the state of the moment: power, mode and, in Run mode, address, speed and
\* "B" when braked or else the direction.
DisplayShowsState == display = Snapshot(Cur)

\* C16: the mode is Run after setup(), and it changes only from Run to Fn,
\* from Run to Addr, from Fn to Run and from Addr to Run.
ModeTransitions ==
  /\ mode = Run
  /\ [](mode \in {Run, Fn, Addr})
  /\ [][mode' # mode =>
          \/ mode = Run /\ mode' \in {Fn, Addr}
          \/ mode \in {Fn, Addr} /\ mode' = Run]_vars

\* C16 witness: back in Run mode from Addr mode, the address typed there
\* accepted.
ModeTransitionsWitness ==
  /\ key = "H"
  /\ mode = Run
  /\ loco = 7
  /\ oldLoco = DefaultLoco

\* C17 (as claimed): once the Brake key has set the brake and while no key is
\* pressed after it, no call of loop() raises the speed or clears braked, and
\* the speed stays 0 once it is 0.
BrakeSetKeepsSpeedDown ==
  [][(lastKey = "0" /\ brakedFlag /\ key' = NoKey /\ LoopStep) =>
       /\ speed' <= speed
       /\ brakedFlag'
       /\ speed = 0 => speed' = 0]_vars

\* C18 (as claimed): once the Brake key has released the brake and while no
\* key is pressed after it, no call of loop() lowers the speed on the way to
\* the saved speed.
ReleaseRampOnlyRises ==
  [][(lastKey = "0" /\ ~brakedFlag /\ incrToOldSpeed /\ key' = NoKey
        /\ LoopStep) =>
       speed' >= speed]_vars

\* C19 (as claimed): if from some moment on no key is pressed, loop() being
\* called again and again while millis() advances, then from some moment on
\* no ramp is active.
RampsEnd ==
  (<>[][LoopStep => key' = NoKey]_vars) =>
    <>[](~decrToStop /\ ~incrToOldSpeed)

\* C20 (as claimed): in Addr mode the accumulator is never negative, and a
\* digit key d leaves it at ten times its value plus d (so that it is the
\* decimal value of the digits typed, whatever their number).
AccumulatorIsDecimal ==
  /\ [](mode = Addr => loco >= 0)
  /\ [][(mode = Addr /\ key' \in DigitKeys /\ LoopStep) =>
          /\ loco' \div 10 = loco
          /\ loco' % 10 = DigitValue(key')]_vars
====
